---- MODULE Spec2Model ----
(***************************************************************************)
(* The MCP Logseq server: a line-delimited JSON-RPC loop over stdin and    *)
(* stdout (main.rs) whose tools/call requests are translated into calls of *)
(* the Logseq HTTP API (tools/query.rs, tools/mutate.rs, logseq_client.rs).*)
(*                                                                         *)
(* One iteration of the loop of run_mcp_server is modelled at a time: the  *)
(* state holds the line being handled, what that iteration wrote to        *)
(* stdout, the backend calls it made and their replies, and running counts *)
(* of the lines read and of the lines written.  The                        *)
(* locals of the loop body go out of scope when the body ends, and the     *)
(* server keeps no data from one iteration to the next, so nothing else    *)
(* of the history is state of the program.                                 *)
(*                                                                         *)
(* Environment assumptions: stdin delivers valid UTF-8 lines and writes to *)
(* stdout succeed (the `?` on line 87 and on lines 117-119 of main.rs      *)
(* never fires).                                                           *)
(***************************************************************************)
EXTENDS Integers, Sequences, FiniteSets, TLC

VARIABLES
    pc,        \* where the process is: "boot", "read" (at the top of the loop),
               \* "call" (awaiting the backend), "handled" (at the end of the loop
               \* body), "exit_ok", "exit_err"
    env,       \* the environment: LOGSEQ_API_TOKEN and LOGSEQ_API_URL, each an Option
    config,    \* the Config the client holds: None until Config::from_env succeeded
    lineno,    \* lines consumed from stdin so far
    line,      \* the line the current iteration read
    out,       \* what the current iteration wrote to stdout
    nout,      \* lines written to stdout so far
    calls,     \* backend requests sent by the current iteration
    replies    \* what the backend answered to them, in order

vars == <<pc, env, config, lineno, line, out, nout, calls, replies>>

(***************************************************************************)
(* Bounds of the model.                                                    *)
(***************************************************************************)
MaxLines == 2

(***************************************************************************)
(* serde_json::Value as a tagged value; Option and Result as records.      *)
(***************************************************************************)
JNull == [t |-> "null"]
JBool(b) == [t |-> "bool", v |-> b]
JNum(n) == [t |-> "num", v |-> n]
JStr(s) == [t |-> "str", v |-> s]
JArr(s) == [t |-> "arr", v |-> s]
JObj(f) == [t |-> "obj", v |-> f]
\* A string built by format!: kept as the sequence of its pieces, so that
\* "the message contains X" is "X is one of the pieces".
JText(p) == [t |-> "str", parts |-> p]
EmptyMap == [k \in {} |-> JNull]

None == [some |-> FALSE]
Some(x) == [some |-> TRUE, val |-> x]
UnwrapOr(o, d) == IF o.some THEN o.val ELSE d

Ok(v) == [ok |-> TRUE, val |-> v]
Err(p) == [ok |-> FALSE, err |-> p]

\* Value::get(key): None unless the value is an object holding the key.
Get(v, k) == IF v.t = "obj" /\ k \in DOMAIN v.v THEN Some(v.v[k]) ELSE None
\* Value's Index<&str>: Value::Null unless the value is an object holding the key.
Index(v, k) == UnwrapOr(Get(v, k), JNull)
AsStr(v) == IF v.t = "str" /\ "v" \in DOMAIN v THEN Some(v.v) ELSE None
AsBool(v) == IF v.t = "bool" THEN Some(v.v) ELSE None
IsNull(v) == v.t = "null"

(***************************************************************************)
(* The tool registry (tools/mod.rs).                                       *)
(***************************************************************************)
StringProp(d) == JObj([type |-> JStr("string"), description |-> JStr(d)])
BoolPropDefault(d, b) ==
    JObj([type |-> JStr("boolean"), description |-> JStr(d), default |-> JBool(b)])
Tool(n, d, props, req) ==
    [name |-> n, description |-> Some(d),
     input_schema |-> [type |-> "object", properties |-> Some(props), required |-> req]]

get_all_tools ==
    << Tool("list_graphs", "List available Logseq graphs", EmptyMap, None),
       Tool("list_pages", "List all pages in the current graph", EmptyMap, None),
       Tool("get_page", "Get content of a specific page by name",
            [page_name |-> StringProp("Name of the page to retrieve")],
            Some(<<"page_name">>)),
       Tool("get_block", "Get a specific block by its UUID",
            [uuid |-> StringProp("UUID of the block to retrieve")],
            Some(<<"uuid">>)),
       Tool("search", "Search across all pages in the graph",
            [query |-> StringProp("Search query string")],
            Some(<<"query">>)),
       Tool("create_page", "Create a new page with optional content",
            [page_name |-> StringProp("Name of the page to create"),
             content |-> StringProp("Initial content for the page (optional)")],
            Some(<<"page_name">>)),
       Tool("update_block", "Update the content of an existing block",
            [uuid |-> StringProp("UUID of the block to update"),
             content |-> StringProp("New content for the block")],
            Some(<<"uuid", "content">>)),
       Tool("insert_block", "Insert a new block with precise positioning control",
            [parent_uuid |-> StringProp("UUID of the parent block or page"),
             content |-> StringProp("Content for the new block"),
             sibling |-> BoolPropDefault(
                 "Whether to insert as sibling (true) or child (false)", FALSE)],
            Some(<<"parent_uuid", "content">>)),
       Tool("delete_block", "Delete a block by its UUID",
            [uuid |-> StringProp("UUID of the block to delete")],
            Some(<<"uuid">>)),
       Tool("append_to_page", "Append a block to the end of a page",
            [page_name |-> StringProp("Name of the page to append to"),
             content |-> StringProp("Content to append")],
            Some(<<"page_name", "content">>)) >>

(***************************************************************************)
(* The protocol handlers (main.rs).  A handler that never awaits returns   *)
(* Done(r), r its Result<Value>.                                           *)
(***************************************************************************)
Done(r) == [st |-> "done", res |-> r]
Call(c) == [st |-> "call", call |-> c]

Success(id, result) == JObj([jsonrpc |-> JStr("2.0"), id |-> id, result |-> result])
\* Mutant: the error response also carries a null result.
Failure_with_null_result(id, code, message) ==
    JObj([jsonrpc |-> JStr("2.0"), id |-> id, result |-> JNull,
          error |-> JObj([code |-> JNum(code), message |-> JText(message)])])

Failure(id, code, message) ==
    JObj([jsonrpc |-> JStr("2.0"), id |-> id,
          error |-> JObj([code |-> JNum(code), message |-> JText(message)])])

\* The closure handle_initialize maps over the registry, lines 198-209.
initialize_tool(tool) ==
    JObj([name |-> JStr(tool.name),
          description |-> JStr(UnwrapOr(tool.description, "")),
          inputSchema |-> JObj(
              [type |-> JStr(tool.input_schema.type),
               properties |-> JObj(UnwrapOr(tool.input_schema.properties, EmptyMap)),
               required |-> JArr([i \in 1..Len(UnwrapOr(tool.input_schema.required, <<>>)) |->
                                     JStr(UnwrapOr(tool.input_schema.required, <<>>)[i])])])])

handle_initialize(id) ==
    Ok(Success(id, JObj(
        [protocolVersion |-> JStr("2024-11-05"),
         capabilities |-> JObj([tools |-> JObj(EmptyMap), logseq |-> JBool(TRUE)]),
         serverInfo |-> JObj([name |-> JStr("mcp-logseq-rust"), version |-> JStr("1.0.0")]),
         tools |-> JArr([i \in 1..Len(get_all_tools) |-> initialize_tool(get_all_tools[i])])])))

SkipMarker == JObj([_skip_response |-> JBool(TRUE)])

\* Mutant: the notification is acknowledged like a request.
handle_initialized_always_ack(id) == Ok(Success(id, JObj(EmptyMap)))

\* Mutant: `initialized` is never answered.
handle_initialized_never_ack(id) == Ok(SkipMarker)

handle_initialized(id) ==
    IF IsNull(id) THEN Ok(SkipMarker) ELSE Ok(Success(id, JObj(EmptyMap)))

\* Mutant: ping answers with a payload.
handle_ping_pong(id) == Ok(Success(id, JObj([pong |-> JBool(TRUE)])))

\* Mutant: a ping without an id is taken for a notification.
handle_ping_as_notification(id) ==
    IF IsNull(id) THEN Ok(SkipMarker) ELSE Ok(Success(id, JObj(EmptyMap)))

handle_ping(id) == Ok(Success(id, JObj(EmptyMap)))

\* Mutant: the alias is treated as the notification it is named after.
handle_notifications_initialized_as_notification(id) ==
    IF IsNull(id) THEN Ok(SkipMarker) ELSE Ok(Success(id, JObj(EmptyMap)))

handle_notifications_initialized(id) == Ok(Success(id, JObj(EmptyMap)))

\* The closure handle_tools_list maps over the registry, lines 291-302.
tools_list_tool(tool) ==
    JObj([name |-> JStr(tool.name),
          description |-> JStr(UnwrapOr(tool.description, "")),
          inputSchema |-> JObj(
              [type |-> JStr(tool.input_schema.type),
               properties |-> JObj(UnwrapOr(tool.input_schema.properties, EmptyMap)),
               required |-> JArr([i \in 1..Len(UnwrapOr(tool.input_schema.required, <<>>)) |->
                                     JStr(UnwrapOr(tool.input_schema.required, <<>>)[i])])])])

\* Mutant: tools/list leaves the `required` list out of the schemas.
handle_tools_list_without_required(id) ==
    Ok(Success(id, JObj(
        [tools |-> JArr([i \in 1..Len(get_all_tools) |->
            JObj([name |-> JStr(get_all_tools[i].name),
                  description |-> JStr(UnwrapOr(get_all_tools[i].description, "")),
                  inputSchema |-> JObj(
                      [type |-> JStr(get_all_tools[i].input_schema.type),
                       properties |-> JObj(UnwrapOr(get_all_tools[i].input_schema.properties,
                                                    EmptyMap))])])])])))

handle_tools_list(id) ==
    Ok(Success(id, JObj(
        [tools |-> JArr([i \in 1..Len(get_all_tools) |-> tools_list_tool(get_all_tools[i])])])))

METHOD_NOT_FOUND == -32601
INTERNAL_ERROR == -32603

\* Mutant: the error is built with the id 0, as a parse error would be.
method_not_found_zero_id(id, method) ==
    Ok(Failure(JNum(0), METHOD_NOT_FOUND, <<"Method '", method, "' not found">>))

method_not_found(id, method) ==
    Ok(Failure(id, METHOD_NOT_FOUND, <<"Method '", method, "' not found">>))

(***************************************************************************)
(* serde_json's serializers, for the JSON text the server embeds in        *)
(* strings.  Strings of the model hold no character that needs escaping.   *)
(* Objects are BTreeMaps: their keys come out in byte order, which         *)
(* KeyOrder lists for every key the model uses.                            *)
(***************************************************************************)
KeyOrder ==
    << "_skip_response", "arguments", "block", "blocks", "capabilities", "code",
       "content", "default", "description", "error", "format", "graphs", "id",
       "inputSchema", "jsonrpc", "logseq", "message", "method", "name", "page",
       "page_name", "pages", "params", "parent_uuid", "properties",
       "protocolVersion", "query", "required", "result", "results", "serverInfo",
       "sibling", "success", "text", "tools", "type", "uuid", "version" >>

RECURSIVE Join(_, _)
Join(strs, sep) ==
    IF Len(strs) = 0 THEN ""
    ELSE IF Len(strs) = 1 THEN strs[1]
    ELSE strs[1] \o sep \o Join(Tail(strs), sep)

KeysOf(v) == SelectSeq(KeyOrder, LAMBDA k : k \in DOMAIN v.v)

Quoted(v) == IF "parts" \in DOMAIN v THEN "\"" \o Join(v.parts, "") \o "\""
                                     ELSE "\"" \o v.v \o "\""

\* serde_json::to_string, and Display of a Value.
RECURSIVE ToJsonString(_)
ToJsonString(v) ==
    CASE v.t = "null" -> "null"
      [] v.t = "bool" -> IF v.v THEN "true" ELSE "false"
      [] v.t = "num"  -> ToString(v.v)
      [] v.t = "str"  -> Quoted(v)
      [] v.t = "arr"  ->
            "[" \o Join([i \in 1..Len(v.v) |-> ToJsonString(v.v[i])], ",") \o "]"
      [] v.t = "obj"  ->
            "{" \o Join([i \in 1..Len(KeysOf(v)) |->
                            "\"" \o KeysOf(v)[i] \o "\":" \o ToJsonString(v.v[KeysOf(v)[i]])],
                        ",") \o "}"

\* serde_json::to_string_pretty: two spaces of indent, one member per line.
RECURSIVE Pretty(_, _)
Pretty(v, ind) ==
    CASE v.t = "null" -> "null"
      [] v.t = "bool" -> IF v.v THEN "true" ELSE "false"
      [] v.t = "num"  -> ToString(v.v)
      [] v.t = "str"  -> Quoted(v)
      [] v.t = "arr"  ->
            IF Len(v.v) = 0 THEN "[]"
            ELSE "[\n"
                 \o Join([i \in 1..Len(v.v) |-> ind \o "  " \o Pretty(v.v[i], ind \o "  ")],
                         ",\n")
                 \o "\n" \o ind \o "]"
      [] v.t = "obj"  ->
            IF Len(KeysOf(v)) = 0 THEN "{}"
            ELSE "{\n"
                 \o Join([i \in 1..Len(KeysOf(v)) |->
                             ind \o "  \"" \o KeysOf(v)[i] \o "\": "
                             \o Pretty(v.v[KeysOf(v)[i]], ind \o "  ")],
                         ",\n")
                 \o "\n" \o ind \o "}"

to_string_pretty(v) == Pretty(v, "")

(***************************************************************************)
(* Configuration (config.rs).                                              *)
(***************************************************************************)
DefaultUrl == "http://localhost:12315"

\* Mutant: a missing token is taken to be the empty token.
from_env_empty_token(e) ==
    Ok([logseq_api_token |-> UnwrapOr(e.LOGSEQ_API_TOKEN, ""),
        logseq_api_url |-> UnwrapOr(e.LOGSEQ_API_URL, DefaultUrl)])

from_env(e) ==
    IF ~e.LOGSEQ_API_TOKEN.some THEN Err(<<"LOGSEQ_API_TOKEN not set">>)
    ELSE Ok([logseq_api_token |-> e.LOGSEQ_API_TOKEN.val,
             logseq_api_url |-> UnwrapOr(e.LOGSEQ_API_URL, DefaultUrl)])

(***************************************************************************)
(* The backend gateway (logseq_client.rs).  An async operation is a        *)
(* function of the replies `rs` the backend has given so far in this       *)
(* iteration: it is either waiting on its k-th request, Call(request), or  *)
(* finished, Done(result).                                                 *)
(***************************************************************************)
\* Tokens HeaderValue::from_str rejects (a control character in the value).
BadHeaderTokens == {"se\ncret"}

\* What the HTTP exchange of one request can come to.
SendFailed == [kind |-> "send_failed"]
NotJson == [kind |-> "not_json"]
Body(v) == [kind |-> "json", body |-> v]

\* Mutant: a body of the form {"result": X} is unwrapped to X.
call_api_unwraps_result(method, args, k, rs) ==
    IF config.val.logseq_api_token \in BadHeaderTokens
    THEN Done(Err(<<"failed to parse header value">>))
    ELSE IF Len(rs) < k
    THEN Call([url |-> config.val.logseq_api_url \o "/api",
               authorization |-> "Bearer " \o config.val.logseq_api_token,
               content_type |-> "application/json",
               method |-> method,
               args |-> args])
    ELSE IF rs[k].kind = "send_failed"
    THEN Done(Err(<<"error sending request">>))
    ELSE IF rs[k].kind = "not_json"
    THEN Done(Err(<<"error decoding response body">>))
    ELSE IF Get(rs[k].body, "error").some
    THEN Done(Err(<<"Logseq API error: ", ToJsonString(Get(rs[k].body, "error").val)>>))
    ELSE IF Get(rs[k].body, "result").some
    THEN Done(Ok(Get(rs[k].body, "result").val))
    ELSE Done(Ok(rs[k].body))

call_api(method, args, k, rs) ==
    IF config.val.logseq_api_token \in BadHeaderTokens
    THEN Done(Err(<<"failed to parse header value">>))
    ELSE IF Len(rs) < k
    THEN Call([url |-> config.val.logseq_api_url \o "/api",
               authorization |-> "Bearer " \o config.val.logseq_api_token,
               content_type |-> "application/json",
               method |-> method,
               args |-> args])
    ELSE IF rs[k].kind = "send_failed"
    THEN Done(Err(<<"error sending request">>))
    ELSE IF rs[k].kind = "not_json"
    THEN Done(Err(<<"error decoding response body">>))
    ELSE IF Get(rs[k].body, "error").some
    THEN Done(Err(<<"Logseq API error: ", ToJsonString(Get(rs[k].body, "error").val)>>))
    ELSE Done(Ok(rs[k].body))

get_current_graph(k, rs) == call_api("logseq.App.getCurrentGraph", <<>>, k, rs)
get_all_pages(k, rs) == call_api("logseq.Editor.getAllPages", <<>>, k, rs)
client_get_page(page_name, k, rs) ==
    call_api("logseq.Editor.getPage", <<JStr(page_name)>>, k, rs)
get_page_blocks_tree(page_name, k, rs) ==
    call_api("logseq.Editor.getPageBlocksTree", <<JStr(page_name)>>, k, rs)
client_get_block(uuid, k, rs) == call_api("logseq.Editor.getBlock", <<JStr(uuid)>>, k, rs)
client_search(query, k, rs) == call_api("logseq.App.search", <<JStr(query)>>, k, rs)
\* Mutant: the options object is attached whether or not content was given.
client_create_page_always_content(page_name, content, k, rs) ==
    call_api("logseq.Editor.createPage",
             <<JStr(page_name),
               JObj([content |-> JStr(UnwrapOr(content, "")), format |-> JStr("markdown")])>>,
             k, rs)

client_create_page(page_name, content, k, rs) ==
    call_api("logseq.Editor.createPage",
             IF content.some
             THEN <<JStr(page_name),
                    JObj([content |-> JStr(content.val), format |-> JStr("markdown")])>>
             ELSE <<JStr(page_name)>>,
             k, rs)
client_insert_block(parent_uuid, content, sibling, k, rs) ==
    call_api("logseq.Editor.insertBlock",
             <<JStr(parent_uuid), JStr(content), JObj([sibling |-> JBool(sibling)])>>, k, rs)
client_update_block(uuid, content, k, rs) ==
    call_api("logseq.Editor.updateBlock", <<JStr(uuid), JStr(content)>>, k, rs)
client_delete_block(uuid, k, rs) ==
    call_api("logseq.Editor.removeBlock", <<JStr(uuid)>>, k, rs)
append_block_in_page(page_name, content, k, rs) ==
    call_api("logseq.Editor.appendBlockInPage", <<JStr(page_name), JStr(content)>>, k, rs)

(***************************************************************************)
(* The tool handlers (tools/query.rs, tools/mutate.rs).                    *)
(***************************************************************************)
\* `step.await?` does not go on: the call is pending, or it has failed and
\* the handler returns its Err.
Stopped(step) == step.st = "call" \/ ~step.res.ok

\* Mutant: the message does not say which parameter is missing.
Required_unnamed(name) == Done(Err(<<"a required parameter is missing">>))

Required(name) == Done(Err(<<name, " parameter is required">>))

\* Each handler is its validation and its first call, followed by what it
\* does with the awaited call.
list_graphs_then(graph) ==
    IF Stopped(graph) THEN graph
    ELSE Done(Ok(JObj([graphs |-> JArr(<<graph.res.val>>)])))

list_graphs(params, rs) == list_graphs_then(get_current_graph(1, rs))

list_pages_then(pages) ==
    IF Stopped(pages) THEN pages
    ELSE Done(Ok(JObj([pages |-> pages.res.val])))

list_pages(params, rs) == list_pages_then(get_all_pages(1, rs))

\* Mutant: the two results are put under each other's key.
get_page_then_blocks_swapped(page_info, blocks) ==
    IF Stopped(blocks) THEN blocks
    ELSE Done(Ok(JObj([page |-> blocks.res.val, blocks |-> page_info])))

\* Mutant: when the block tree cannot be had, the page is returned without it.
get_page_then_blocks_partial(page_info, blocks) ==
    IF blocks.st = "call" THEN blocks
    ELSE IF ~blocks.res.ok THEN Done(Ok(JObj([page |-> page_info, blocks |-> JNull])))
    ELSE Done(Ok(JObj([page |-> page_info, blocks |-> blocks.res.val])))

get_page_then_blocks(page_info, blocks) ==
    IF Stopped(blocks) THEN blocks
    ELSE Done(Ok(JObj([page |-> page_info, blocks |-> blocks.res.val])))

\* Mutant: a failed getPage is tried once more.
get_page_then_retry(page_name, page_info, rs) ==
    IF page_info.st = "call" THEN page_info
    ELSE IF ~page_info.res.ok THEN client_get_page(page_name, 2, rs)
    ELSE get_page_then_blocks(page_info.res.val, get_page_blocks_tree(page_name, 2, rs))

get_page_then(page_name, page_info, rs) ==
    IF Stopped(page_info) THEN page_info
    ELSE get_page_then_blocks(page_info.res.val, get_page_blocks_tree(page_name, 2, rs))

get_page(params, rs) ==
    LET page_name == AsStr(Index(params, "page_name")) IN
    IF ~page_name.some THEN Required("page_name")
    ELSE get_page_then(page_name.val, client_get_page(page_name.val, 1, rs), rs)

get_block_then(block) ==
    IF Stopped(block) THEN block
    ELSE Done(Ok(JObj([block |-> block.res.val])))

\* Mutant: the handler reads another key than the one the registry declares.
get_block_by_block_uuid(params, rs) ==
    LET uuid == AsStr(Index(params, "block_uuid")) IN
    IF ~uuid.some THEN Required("block_uuid")
    ELSE get_block_then(client_get_block(uuid.val, 1, rs))

\* Mutant: the handler calls the gateway operation of delete_block.
get_block_removes(params, rs) ==
    LET uuid == AsStr(Index(params, "uuid")) IN
    IF ~uuid.some THEN Required("uuid")
    ELSE get_block_then(client_delete_block(uuid.val, 1, rs))

get_block(params, rs) ==
    LET uuid == AsStr(Index(params, "uuid")) IN
    IF ~uuid.some THEN Required("uuid")
    ELSE get_block_then(client_get_block(uuid.val, 1, rs))

search_then(results) ==
    IF Stopped(results) THEN results
    ELSE Done(Ok(JObj([results |-> results.res.val])))

\* Mutant: the handler reads a parameter its descriptor does not declare.
search_within_page(params, rs) ==
    LET query == AsStr(Index(params, "query"))
        page_name == AsStr(Index(params, "page_name")) IN
    IF ~query.some THEN Required("query")
    ELSE search_then(client_search(
             IF page_name.some THEN page_name.val \o " " \o query.val ELSE query.val, 1, rs))

search(params, rs) ==
    LET query == AsStr(Index(params, "query")) IN
    IF ~query.some THEN Required("query")
    ELSE search_then(client_search(query.val, 1, rs))

create_page_then(result) ==
    IF Stopped(result) THEN result
    ELSE Done(Ok(JObj([success |-> JBool(TRUE), page |-> result.res.val])))

create_page(params, rs) ==
    LET page_name == AsStr(Index(params, "page_name"))
        content == AsStr(Index(params, "content")) IN
    IF ~page_name.some THEN Required("page_name")
    ELSE create_page_then(client_create_page(page_name.val, content, 1, rs))

update_block_then(result) ==
    IF Stopped(result) THEN result
    ELSE Done(Ok(JObj([success |-> JBool(TRUE), block |-> result.res.val])))

\* Mutant: the two arguments are passed in each other's position.
update_block_swapped(params, rs) ==
    LET uuid == AsStr(Index(params, "uuid"))
        content == AsStr(Index(params, "content")) IN
    IF ~uuid.some THEN Required("uuid")
    ELSE IF ~content.some THEN Required("content")
    ELSE update_block_then(client_update_block(content.val, uuid.val, 1, rs))

update_block(params, rs) ==
    LET uuid == AsStr(Index(params, "uuid"))
        content == AsStr(Index(params, "content")) IN
    IF ~uuid.some THEN Required("uuid")
    ELSE IF ~content.some THEN Required("content")
    ELSE update_block_then(client_update_block(uuid.val, content.val, 1, rs))

insert_block_then(result) ==
    IF Stopped(result) THEN result
    ELSE Done(Ok(JObj([success |-> JBool(TRUE), block |-> result.res.val])))

\* Mutant: a block is inserted as a sibling unless told otherwise.
insert_block_sibling_by_default(params, rs) ==
    LET parent_uuid == AsStr(Index(params, "parent_uuid"))
        content == AsStr(Index(params, "content"))
        sibling == UnwrapOr(AsBool(Index(params, "sibling")), TRUE) IN
    IF ~parent_uuid.some THEN Required("parent_uuid")
    ELSE IF ~content.some THEN Required("content")
    ELSE insert_block_then(
             client_insert_block(parent_uuid.val, content.val, sibling, 1, rs))

insert_block(params, rs) ==
    LET parent_uuid == AsStr(Index(params, "parent_uuid"))
        content == AsStr(Index(params, "content"))
        sibling == UnwrapOr(AsBool(Index(params, "sibling")), FALSE) IN
    IF ~parent_uuid.some THEN Required("parent_uuid")
    ELSE IF ~content.some THEN Required("content")
    ELSE insert_block_then(
             client_insert_block(parent_uuid.val, content.val, sibling, 1, rs))

delete_block_then(result) ==
    IF Stopped(result) THEN result
    ELSE Done(Ok(JObj([success |-> JBool(TRUE), result |-> result.res.val])))

delete_block(params, rs) ==
    LET uuid == AsStr(Index(params, "uuid")) IN
    IF ~uuid.some THEN Required("uuid")
    ELSE delete_block_then(client_delete_block(uuid.val, 1, rs))

append_to_page_then(result) ==
    IF Stopped(result) THEN result
    ELSE Done(Ok(JObj([success |-> JBool(TRUE), block |-> result.res.val])))

\* Mutant: the content is not validated; a missing one is sent as "".
append_to_page_unchecked_content(params, rs) ==
    LET page_name == AsStr(Index(params, "page_name"))
        content == AsStr(Index(params, "content")) IN
    IF ~page_name.some THEN Required("page_name")
    ELSE append_to_page_then(
             append_block_in_page(page_name.val, UnwrapOr(content, ""), 1, rs))

append_to_page(params, rs) ==
    LET page_name == AsStr(Index(params, "page_name"))
        content == AsStr(Index(params, "content")) IN
    IF ~page_name.some THEN Required("page_name")
    ELSE IF ~content.some THEN Required("content")
    ELSE append_to_page_then(append_block_in_page(page_name.val, content.val, 1, rs))

(***************************************************************************)
(* tools/call and the dispatch on the method (main.rs).                    *)
(***************************************************************************)
\* Mutant: the arm of delete_block is missing from the match.
DispatchTool_without_delete_block(tool_name, tool_params, rs) ==
    CASE tool_name = "list_graphs"    -> list_graphs(tool_params, rs)
      [] tool_name = "list_pages"     -> list_pages(tool_params, rs)
      [] tool_name = "get_page"       -> get_page(tool_params, rs)
      [] tool_name = "get_block"      -> get_block(tool_params, rs)
      [] tool_name = "search"         -> search(tool_params, rs)
      [] tool_name = "create_page"    -> create_page(tool_params, rs)
      [] tool_name = "update_block"   -> update_block(tool_params, rs)
      [] tool_name = "insert_block"   -> insert_block(tool_params, rs)
      [] tool_name = "append_to_page" -> append_to_page(tool_params, rs)
      [] OTHER -> Done(Err(<<"Unknown tool: ", tool_name>>))

\* The match on the tool name, lines 339-351.
DispatchTool(tool_name, tool_params, rs) ==
    CASE tool_name = "list_graphs"    -> list_graphs(tool_params, rs)
      [] tool_name = "list_pages"     -> list_pages(tool_params, rs)
      [] tool_name = "get_page"       -> get_page(tool_params, rs)
      [] tool_name = "get_block"      -> get_block(tool_params, rs)
      [] tool_name = "search"         -> search(tool_params, rs)
      [] tool_name = "create_page"    -> create_page(tool_params, rs)
      [] tool_name = "update_block"   -> update_block(tool_params, rs)
      [] tool_name = "insert_block"   -> insert_block(tool_params, rs)
      [] tool_name = "delete_block"   -> delete_block(tool_params, rs)
      [] tool_name = "append_to_page" -> append_to_page(tool_params, rs)
      [] OTHER -> Done(Err(<<"Unknown tool: ", tool_name>>))

\* Mutant: the error response leaves the cause of the failure out.
ToolResponse_without_cause(id, result) ==
    IF result.ok
    THEN Success(id, JObj([content |-> JArr(<<
             JObj([type |-> JStr("text"), text |-> JStr(to_string_pretty(result.val))])>>)]))
    ELSE Failure(id, INTERNAL_ERROR, <<"Tool execution failed">>)

\* Mutant: an unknown tool is reported as an unknown method is.
ToolResponse_unknown_tool_as_method_not_found(id, result) ==
    IF result.ok
    THEN Success(id, JObj([content |-> JArr(<<
             JObj([type |-> JStr("text"), text |-> JStr(to_string_pretty(result.val))])>>)]))
    ELSE IF result.err[1] = "Unknown tool: "
    THEN Failure(id, METHOD_NOT_FOUND, <<"Tool execution failed: ">> \o result.err)
    ELSE Failure(id, INTERNAL_ERROR, <<"Tool execution failed: ">> \o result.err)

\* The match on the handler's result, lines 354-373.
ToolResponse(id, result) ==
    IF result.ok
    THEN Success(id, JObj([content |-> JArr(<<
             JObj([type |-> JStr("text"), text |-> JStr(to_string_pretty(result.val))])>>)]))
    ELSE Failure(id, INTERNAL_ERROR, <<"Tool execution failed: ">> \o result.err)

\* Lines 339-373 once the handler has stopped: its pending call goes up to
\* the loop, its result becomes the response.
tool_call_then(id, step) ==
    IF step.st = "call" THEN step
    ELSE Done(Ok(ToolResponse(id, step.res)))

\* Mutant: `arguments` is required as `name` is.
handle_tool_call_requires_arguments(id, request, rs) ==
    LET params == Get(request, "params")
        tool_name == IF Get(params.val, "name").some
                     THEN AsStr(Get(params.val, "name").val) ELSE None
        tool_params == Get(params.val, "arguments") IN
    IF ~params.some THEN Done(Err(<<"Missing params">>))
    ELSE IF ~tool_name.some THEN Done(Err(<<"Missing tool name">>))
    ELSE IF ~tool_params.some THEN Done(Err(<<"Missing arguments">>))
    ELSE tool_call_then(id, DispatchTool(tool_name.val, tool_params.val, rs))

handle_tool_call(id, request, rs) ==
    LET params == Get(request, "params")
        tool_name == IF Get(params.val, "name").some
                     THEN AsStr(Get(params.val, "name").val) ELSE None
        tool_params == UnwrapOr(Get(params.val, "arguments"), JObj(EmptyMap)) IN
    IF ~params.some THEN Done(Err(<<"Missing params">>))
    ELSE IF ~tool_name.some THEN Done(Err(<<"Missing tool name">>))
    ELSE tool_call_then(id, DispatchTool(tool_name.val, tool_params, rs))

\* The effective id and the method name, lines 146-147.
RequestId(request) == UnwrapOr(Get(request, "id"), JNum(0))
\* Mutant: the method name is lower-cased before it is matched.
RequestMethodLowercase(request) ==
    LET m == IF Get(request, "method").some
             THEN UnwrapOr(AsStr(Get(request, "method").val), "")
             ELSE "" IN
    CASE m = "Ping" -> "ping"
      [] m = "tools/List" -> "tools/list"
      [] OTHER -> m

RequestMethod(request) ==
    IF Get(request, "method").some
    THEN UnwrapOr(AsStr(Get(request, "method").val), "")
    ELSE ""

handle_request(request, rs) ==
    LET id == RequestId(request)
        method == RequestMethod(request) IN
    CASE method = "initialize"                -> Done(handle_initialize(id))
      [] method = "initialized"               -> Done(handle_initialized(id))
      [] method = "notifications/initialized" -> Done(handle_notifications_initialized(id))
      [] method = "ping"                      -> Done(handle_ping(id))
      [] method = "tools/list"                -> Done(handle_tools_list(id))
      [] method = "tools/call"                -> handle_tool_call(id, request, rs)
      [] OTHER                                -> Done(method_not_found(id, method))

(***************************************************************************)
(* The lines stdin can deliver.  A line is blank, or text that is not      *)
(* JSON, or the text of a JSON value, which stands for the line.           *)
(***************************************************************************)
BlankLine == [kind |-> "blank"]
MalformedLine == [kind |-> "malformed"]
JsonLine(v) == [kind |-> "json", value |-> v]

Ids == {None, Some(JNull), Some(JNum(0)), Some(JNum(7)), Some(JStr("")), Some(JStr("7"))}

KnownMethods ==
    {"initialize", "initialized", "notifications/initialized", "ping", "tools/list",
     "tools/call"}
OtherMethods == {"Ping", "tools/List", "resources/list", ""}
PlainMethods ==
    {None, Some(JNum(1))} \cup {Some(JStr(m)) : m \in (KnownMethods \cup OtherMethods) \ {"tools/call"}}

ToolNames ==
    {"list_graphs", "list_pages", "get_page", "get_block", "search", "create_page",
     "update_block", "insert_block", "delete_block", "append_to_page"}
OtherToolNames == {"List_Graphs", "drop_graph"}

Arguments ==
    { None, Some(JNull), Some(JObj(EmptyMap)),
      Some(JObj([page_name |-> JStr("X")])),
      Some(JObj([page_name |-> JNum(5)])),
      Some(JObj([page_name |-> JStr("X"), content |-> JStr("c")])),
      Some(JObj([page_name |-> JStr("X"), content |-> JNum(5)])),
      Some(JObj([content |-> JStr("c")])),
      Some(JObj([uuid |-> JStr("u")])),
      Some(JObj([uuid |-> JStr("u"), content |-> JStr("c")])),
      Some(JObj([uuid |-> JNum(5), content |-> JStr("c")])),
      Some(JObj([query |-> JStr("q")])),
      Some(JObj([query |-> JBool(TRUE)])),
      Some(JObj([parent_uuid |-> JStr("u")])),
      Some(JObj([parent_uuid |-> JStr("u"), content |-> JStr("c")])),
      Some(JObj([parent_uuid |-> JStr("u"), content |-> JStr("c"), sibling |-> JBool(TRUE)])),
      Some(JObj([parent_uuid |-> JStr("u"), content |-> JStr("c"), sibling |-> JBool(FALSE)])),
      Some(JObj([parent_uuid |-> JStr("u"), content |-> JStr("c"), sibling |-> JStr("yes")])),
      Some(JObj([page_name |-> JStr("X"), uuid |-> JStr("u"), query |-> JStr("q"),
                 content |-> JStr("c"), parent_uuid |-> JStr("u"),
                 _skip_response |-> JBool(TRUE)])) }

\* An object holding the members that are given.
Members(name, arguments) ==
    JObj([k \in (IF name.some THEN {"name"} ELSE {})
                 \cup (IF arguments.some THEN {"arguments"} ELSE {}) |->
             IF k = "name" THEN name.val ELSE arguments.val])

CallParams ==
    {None, Some(JStr("x")), Some(Members(None, None)), Some(Members(Some(JNum(3)), None)),
     Some(Members(None, Some(JObj(EmptyMap))))}
    \cup {Some(Members(Some(JStr(n)), a)) : n \in ToolNames \cup OtherToolNames, a \in Arguments}

PlainParams == {None, Some(JObj([_skip_response |-> JBool(TRUE)]))}

Request(id, method, params) ==
    JObj([k \in {"jsonrpc"} \cup (IF id.some THEN {"id"} ELSE {})
                 \cup (IF method.some THEN {"method"} ELSE {})
                 \cup (IF params.some THEN {"params"} ELSE {}) |->
             CASE k = "jsonrpc" -> JStr("2.0")
               [] k = "id"      -> id.val
               [] k = "method"  -> method.val
               [] k = "params"  -> params.val])

Requests ==
    {Request(i, m, p) : i \in Ids, m \in PlainMethods, p \in PlainParams}
    \cup {Request(i, Some(JStr("tools/call")), p) : i \in Ids, p \in CallParams}

Lines ==
    {BlankLine, MalformedLine, JsonLine(JNum(42)), JsonLine(JArr(<<JNum(1), JNum(2)>>))}
    \cup {JsonLine(r) : r \in Requests}

\* What the backend can answer to one request.
Replies ==
    { SendFailed, NotJson,
      Body(JObj([error |-> JStr("boom")])),
      Body(JObj([error |-> JNull])),
      Body(JObj([result |-> JObj([name |-> JStr("X")])])),
      Body(JObj([name |-> JStr("X")])),
      Body(JObj([_skip_response |-> JBool(TRUE)])),
      Body(JArr(<<>>)),
      Body(JNull) }

Environments ==
    [LOGSEQ_API_TOKEN : {None, Some("secret")}, LOGSEQ_API_URL : {None, Some("http://logseq.test:9000")}]
    \cup [LOGSEQ_API_TOKEN : {Some(t) : t \in BadHeaderTokens}, LOGSEQ_API_URL : {None}]

(***************************************************************************)
(* The process: main and the loop of run_mcp_server (main.rs).             *)
(***************************************************************************)
\* Mutant: the line is parsed into a request structure, which wants an
\* object with a string `method`.
from_str_typed(l) ==
    IF l.kind = "json" /\ l.value.t = "obj" /\ "method" \in DOMAIN l.value.v
                       /\ l.value.v["method"].t = "str"
    THEN Ok(l.value) ELSE Err(<<"not a request">>)

from_str(l) == IF l.kind = "json" THEN Ok(l.value) ELSE Err(<<"not JSON">>)

\* Lines 109-114: the response is the marker of a notification.
ShouldSkip(response) ==
    /\ Get(response, "_skip_response").some
    /\ UnwrapOr(AsBool(Get(response, "_skip_response").val), FALSE)

\* Mutant: a blank line is answered with a parse error.
OnBlankLineReply ==
    [next |-> "handled",
     write |-> <<Failure(JNum(0), -32700, <<"Parse error">>)>>,
     send |-> <<>>]

\* Lines 88-90: the line is empty once trimmed; the loop `continue`s.
OnBlankLine == [next |-> "handled", write |-> <<>>, send |-> <<>>]

\* Mutant: a line that is not JSON is answered with a parse error.
OnParseErrorReply ==
    [next |-> "handled",
     write |-> <<Failure(JNum(0), -32700, <<"Parse error">>)>>,
     send |-> <<>>]

\* Lines 98-101: the line is not JSON; it is logged to stderr and skipped.
OnParseError == [next |-> "handled", write |-> <<>>, send |-> <<>>]

\* Mutant: the backend call is started and not awaited.
Outcome_without_await(step) ==
    IF step.st = "call" THEN [next |-> "handled", write |-> <<>>, send |-> <<step.call>>]
    ELSE IF ~step.res.ok THEN [next |-> "exit_err", write |-> <<>>, send |-> <<>>]
    ELSE IF ShouldSkip(step.res.val) THEN [next |-> "handled", write |-> <<>>, send |-> <<>>]
    ELSE [next |-> "handled", write |-> <<step.res.val>>, send |-> <<>>]

\* Lines 105-119 for what handle_request came to: a pending backend call, an
\* Err that `?` returns from run_mcp_server, the marker that is skipped, or a
\* response that is written.
Outcome(step) ==
    IF step.st = "call" THEN [next |-> "call", write |-> <<>>, send |-> <<step.call>>]
    ELSE IF ~step.res.ok THEN [next |-> "exit_err", write |-> <<>>, send |-> <<>>]
    ELSE IF ShouldSkip(step.res.val) THEN [next |-> "handled", write |-> <<>>, send |-> <<>>]
    ELSE [next |-> "handled", write |-> <<step.res.val>>, send |-> <<>>]

\* One iteration of the loop on line l, as far as the replies rs take it:
\* the calls to send, the lines to write, and where the process goes next.
Iteration(l, rs) ==
    IF l.kind = "blank" THEN OnBlankLine
    ELSE IF ~from_str(l).ok THEN OnParseError
    ELSE Outcome(handle_request(from_str(l).val, rs))

\* The iteration's effect on the process, stdout and the backend.
Effect(it) ==
    /\ pc' = it.next
    /\ out' = out \o it.write
    /\ nout' = nout + Len(it.write)
    /\ calls' = calls \o it.send

Init ==
    /\ pc = "boot"
    /\ env \in Environments
    /\ config = None
    /\ lineno = 0
    /\ line = BlankLine
    /\ out = <<>>
    /\ nout = 0
    /\ calls = <<>>
    /\ replies = <<>>

\* main, lines 56-58: the configuration is loaded and the client built.
Boot ==
    /\ pc = "boot"
    /\ IF from_env(env).ok
       THEN config' = Some(from_env(env).val) /\ pc' = "read"
       ELSE config' = config /\ pc' = "exit_err"
    /\ UNCHANGED <<env, lineno, line, out, nout, calls, replies>>

\* Mutant: the next line is taken up while a backend call is still awaited.
ReadLine_while_awaiting(l) ==
    /\ pc \in {"read", "call"}
    /\ lineno < MaxLines
    /\ Effect(Iteration(l, <<>>))
    /\ lineno' = lineno + 1
    /\ line' = l
    /\ replies' = <<>>
    /\ UNCHANGED <<env, config>>

\* The loop reads the next line and handles it up to its first backend call.
ReadLine(l) ==
    /\ pc = "read"
    /\ lineno < MaxLines
    /\ Effect(Iteration(l, <<>>))
    /\ lineno' = lineno + 1
    /\ line' = l
    /\ replies' = <<>>
    /\ UNCHANGED <<env, config>>

\* The backend answers the pending call and the handler runs on.
BackendReply(r) ==
    /\ pc = "call"
    /\ Effect(Iteration(line, Append(replies, r)))
    /\ replies' = Append(replies, r)
    /\ UNCHANGED <<env, config, lineno, line>>

\* The loop body ends (or `continue`s): its locals are dropped and the loop
\* is back at its top.
NextIteration ==
    /\ pc = "handled"
    /\ pc' = "read"
    /\ line' = BlankLine
    /\ out' = <<>>
    /\ calls' = <<>>
    /\ replies' = <<>>
    /\ UNCHANGED <<env, config, lineno, nout>>

\* Mutant: the end of stdin is reported as a failure.
EndOfStream_as_error ==
    /\ pc = "read"
    /\ pc' = "exit_err"
    /\ UNCHANGED <<env, config, lineno, line, out, nout, calls, replies>>

\* stdin is closed: the loop ends and main returns Ok.
EndOfStream ==
    /\ pc = "read"
    /\ pc' = "exit_ok"
    /\ UNCHANGED <<env, config, lineno, line, out, nout, calls, replies>>

Next ==
    \/ Boot
    \/ \E l \in Lines : ReadLine(l)
    \/ \E r \in Replies : BackendReply(r)
    \/ NextIteration
    \/ EndOfStream

Spec == Init /\ [][Next]_vars

(***************************************************************************)
(* The properties.  They speak of the iteration in progress: its line, the *)
(* lines it wrote and the backend calls it sent.                           *)
(***************************************************************************)
IsRequest == line.kind = "json"
\* The line's `id` member: None when the line has none.
LineId == IF IsRequest THEN Get(line.value, "id") ELSE None
\* The line's `method` member when it is a string.
LineMethod ==
    IF IsRequest /\ Get(line.value, "method").some
                 /\ Get(line.value, "method").val.t = "str"
    THEN Some(Get(line.value, "method").val.v)
    ELSE None
LineParams == IF IsRequest THEN Get(line.value, "params") ELSE None
MethodIs(m) == LineMethod = Some(m)
HasId == LineId.some /\ ~IsNull(LineId.val)

IsErrorResponse(r, code) ==
    /\ Get(r, "error").some
    /\ ~Get(r, "result").some
    /\ Get(Get(r, "error").val, "code") = Some(JNum(code))
MessageParts(r) == Get(Get(r, "error").val, "message").val.parts
Mentions(r, name) == \E i \in DOMAIN MessageParts(r) : MessageParts(r)[i] = name
IsEmptyResult(r) == Get(r, "result") = Some(JObj(EmptyMap)) /\ ~Get(r, "error").some

\* C1: a request whose id is present and not null is answered, whatever its
\* method, by exactly one response, and every response it gets carries that id
\* with the same JSON type and value.
C1_IdEchoed ==
    HasId =>
        /\ pc = "handled" => Len(out) = 1
        /\ \A i \in DOMAIN out : Get(out[i], "id") = LineId

C1_Witness ==
    /\ pc = "handled"
    /\ MethodIs("tools/call")
    /\ LineId = Some(JStr(""))
    /\ Len(out) = 1
    /\ Get(out[1], "id") = Some(JStr(""))

\* C2: no response has the id null; a response to a request whose id is
\* missing or null has the id 0.
C2_IdNeverNull ==
    \A i \in DOMAIN out :
        /\ Get(out[i], "id").some
        /\ ~IsNull(Get(out[i], "id").val)
        /\ ~HasId => Get(out[i], "id") = Some(JNum(0))

\* C3: `initialized` without an id member writes nothing to stdout, and the
\* loop goes on.
C3_InitializedWithoutIdSuppressed ==
    (MethodIs("initialized") /\ ~LineId.some) => (pc = "handled" /\ out = <<>>)

\* C4: `initialized` with the id null writes nothing to stdout, and the loop
\* goes on.
C4_InitializedNullIdSuppressed ==
    (MethodIs("initialized") /\ LineId = Some(JNull)) =>
        (pc = "handled" /\ out = <<>> /\ calls = <<>> /\ ENABLED NextIteration)

C4_Witness ==
    /\ MethodIs("initialized")
    /\ LineId = Some(JNull)
    /\ pc = "handled"
    /\ lineno = 1

\* C5: `notifications/initialized` writes exactly one line, whose result is
\* the empty object, whether its id is present, absent or null.
C5_NotificationsInitializedAnswered ==
    MethodIs("notifications/initialized") =>
        (pc = "handled" /\ Len(out) = 1 /\ IsEmptyResult(out[1]))

C5_Witness ==
    /\ MethodIs("notifications/initialized")
    /\ LineId = Some(JNull)
    /\ Len(out) = 1

\* C6: a method name that is not, case-sensitively, one of the six known ones
\* is answered by one error of code -32601 whose message holds the name, and
\* no backend call is made.
C6_UnknownMethod ==
    (LineMethod.some /\ LineMethod.val \notin KnownMethods) =>
        /\ pc = "handled"
        /\ Len(out) = 1
        /\ IsErrorResponse(out[1], -32601)
        /\ Mentions(out[1], LineMethod.val)
        /\ calls = <<>>

C6_Witness ==
    /\ MethodIs("tools/List")
    /\ pc = "handled"
    /\ Len(out) = 1
    /\ Mentions(out[1], "tools/List")

\* C7: a tools/call without a params member is answered by an error of code
\* -32603 that carries the effective id.
C7_MissingParamsAnswered ==
    (MethodIs("tools/call") /\ ~LineParams.some) =>
        /\ pc = "handled"
        /\ Len(out) = 1
        /\ IsErrorResponse(out[1], -32603)
        /\ Get(out[1], "id") = Some(UnwrapOr(LineId, JNum(0)))

\* C8: a tools/call whose params.name is absent or not a string is answered by
\* an error of code -32603, and no backend call is made.
C8_MissingNameAnswered ==
    (/\ MethodIs("tools/call")
     /\ LineParams.some
     /\ \/ ~Get(LineParams.val, "name").some
        \/ Get(LineParams.val, "name").val.t # "str") =>
        /\ pc = "handled"
        /\ Len(out) = 1
        /\ IsErrorResponse(out[1], -32603)
        /\ calls = <<>>

\* C9: no request ends the loop: the process fails only when the startup
\* configuration cannot be loaded.
C9_OnlyStartupIsFatal == pc = "exit_err" => ~from_env(env).ok

\* C10: a line that is not JSON writes nothing and calls nothing, and the loop
\* goes on to the next line with what it has written so far unchanged.
C10_MalformedLineSkipped ==
    /\ [](line.kind = "malformed" =>
            (pc = "handled" /\ out = <<>> /\ calls = <<>> /\ ENABLED NextIteration))
    /\ [][(line.kind = "malformed" /\ pc = "handled") =>
            (pc' = "read" /\ nout' = nout /\ config' = config /\ lineno' = lineno)]_vars

C10_Witness == line.kind = "malformed" /\ pc = "handled" /\ lineno = 1 /\ nout = 0

\* The tool a tools/call line names, when params.name is a string.
LineToolName ==
    IF MethodIs("tools/call") /\ LineParams.some /\ Get(LineParams.val, "name").some
    THEN AsStr(Get(LineParams.val, "name").val)
    ELSE None
\* The arguments the tool handler is given: {} when the line has none.
LineArguments == UnwrapOr(Get(LineParams.val, "arguments"), JObj(EmptyMap))
CallsTool(n) == LineToolName = Some(n)
IsStringAt(v, k) == AsStr(Index(v, k)).some

RegistryNames == {get_all_tools[i].name : i \in DOMAIN get_all_tools}
RegistryTool(n) == get_all_tools[CHOOSE i \in DOMAIN get_all_tools : get_all_tools[i].name = n]
RequiredOf(n) == UnwrapOr(RegistryTool(n).input_schema.required, <<>>)

\* The response is a result holding exactly one content block, of type text.
IsTextResult(r) ==
    /\ Get(r, "result").some
    /\ ~Get(r, "error").some
    /\ Get(Get(r, "result").val, "content").some
    /\ Get(Get(r, "result").val, "content").val.t = "arr"
    /\ Len(Get(Get(r, "result").val, "content").val.v) = 1
    /\ Get(Get(Get(r, "result").val, "content").val.v[1], "type") = Some(JStr("text"))
    /\ Get(Get(Get(r, "result").val, "content").val.v[1], "text").some
TextOf(r) == Get(Get(Get(r, "result").val, "content").val.v[1], "text").val.v

\* C11: a tools/call whose params.name is a string that is not one of the ten
\* tool names is answered by one error of code -32603 (not -32601) whose
\* message holds "Unknown tool: " and the name, and no backend call is made.
C11_UnknownToolIsInternalError ==
    (LineToolName.some /\ LineToolName.val \notin ToolNames) =>
        /\ pc = "handled"
        /\ Len(out) = 1
        /\ IsErrorResponse(out[1], -32603)
        /\ ~IsErrorResponse(out[1], -32601)
        /\ Mentions(out[1], "Unknown tool: ")
        /\ Mentions(out[1], LineToolName.val)
        /\ calls = <<>>

C11_Witness ==
    /\ CallsTool("drop_graph")
    /\ pc = "handled"
    /\ Len(out) = 1
    /\ Mentions(out[1], "drop_graph")

\* C12: for every tool of the registry and every parameter of its `required`
\* list, a tools/call in which that parameter is missing or not a string, the
\* required parameters before it being strings, is answered by one error of
\* code -32603 whose message names that parameter, before any backend call.
C12_MissingParameterNamed ==
    \A n \in RegistryNames : \A i \in DOMAIN RequiredOf(n) :
        (/\ CallsTool(n)
         /\ \A j \in 1..(i - 1) : IsStringAt(LineArguments, RequiredOf(n)[j])
         /\ ~IsStringAt(LineArguments, RequiredOf(n)[i])) =>
            /\ pc = "handled"
            /\ Len(out) = 1
            /\ IsErrorResponse(out[1], -32603)
            /\ Mentions(out[1], RequiredOf(n)[i])
            /\ calls = <<>>

C12_Witness ==
    /\ CallsTool("update_block")
    /\ LineArguments = JObj([uuid |-> JStr("u")])
    /\ pc = "handled"
    /\ Len(out) = 1
    /\ Mentions(out[1], "content")

\* C13: the names of the registry are the names the dispatch of tools/call
\* recognizes: a tools/call is answered "Unknown tool" exactly when its name
\* is not a name of the registry, and every name of the registry is a name
\* the dispatch has an arm for.
C13_RegistryMatchesDispatch ==
    /\ RegistryNames = ToolNames
    /\ (LineToolName.some /\ pc \in {"call", "handled"}) =>
           ((pc = "handled" /\ Len(out) = 1 /\ Get(out[1], "error").some
                 /\ Mentions(out[1], "Unknown tool: "))
            <=> LineToolName.val \notin RegistryNames)

C13_Witness ==
    /\ CallsTool("delete_block")
    /\ pc = "call"
    /\ Len(calls) = 1
    /\ calls[1].method = "logseq.Editor.removeBlock"

ToolsOf(r) == Get(Get(r, "result").val, "tools").val
NamesOf(tools) == [i \in DOMAIN tools.v |-> Get(tools.v[i], "name").val.v]
TenNames ==
    << "list_graphs", "list_pages", "get_page", "get_block", "search", "create_page",
       "update_block", "insert_block", "delete_block", "append_to_page" >>

\* C14: the tools array an `initialize` response carries is the one a
\* `tools/list` response carries, and conversely, wherever in the sequence
\* the request is: the ten names in the registry's order, each with the same
\* description and inputSchema.
C14_SameToolsArray ==
    /\ (MethodIs("initialize") /\ out # <<>>) =>
           /\ NamesOf(ToolsOf(out[1])) = TenNames
           /\ ToolsOf(out[1]) = ToolsOf(handle_tools_list(JNull).val)
    /\ (MethodIs("tools/list") /\ out # <<>>) =>
           /\ NamesOf(ToolsOf(out[1])) = TenNames
           /\ ToolsOf(out[1]) = ToolsOf(handle_initialize(JNull).val)

C14_Witness ==
    /\ MethodIs("tools/list")
    /\ lineno = 2
    /\ Len(out) = 1
    /\ Len(ToolsOf(out[1]).v) = 10

\* The backend answered with a body that has no top-level `error` key.
GoodReply(r) == r.kind = "json" /\ ~Get(r.body, "error").some
AllAnswered ==
    /\ calls # <<>>
    /\ Len(replies) = Len(calls)
    /\ \A k \in DOMAIN replies : GoodReply(replies[k])
\* The tool response of a request that could not be built for the backend.
IsHeaderFailure(r) ==
    IsErrorResponse(r, -32603) /\ Mentions(r, "failed to parse header value")

\* C15: every tool of the registry, called with every parameter of its
\* `required` list given as a string, sends its backend calls, and once each
\* of them is answered by a body without a top-level `error` key the response
\* is a result holding one text content block.  (Nothing is sent only when
\* the configured token cannot be put in a header; the answer is then that
\* failure.)
C15_AdvertisedToolsCallable ==
    \A n \in RegistryNames :
        (/\ CallsTool(n)
         /\ \A i \in DOMAIN RequiredOf(n) : IsStringAt(LineArguments, RequiredOf(n)[i])) =>
            /\ pc \in {"call", "handled"}
            /\ calls = <<>> => (pc = "handled" /\ Len(out) = 1 /\ IsHeaderFailure(out[1]))
            /\ (pc = "handled" /\ AllAnswered) => (Len(out) = 1 /\ IsTextResult(out[1]))

C15_Witness ==
    /\ CallsTool("append_to_page")
    /\ pc = "handled"
    /\ AllAnswered
    /\ Len(out) = 1
    /\ IsTextResult(out[1])

\* C16: get_page with a string page_name sends getPage(page_name), then, once
\* that is answered without error, getPageBlocksTree(page_name); it writes
\* nothing before both are answered, and when both are answered without
\* error the response is a result with one text content block whose text is
\* the JSON of {page: <first answer>, blocks: <second answer>}.
C16_GetPageCombinesBoth ==
    (CallsTool("get_page") /\ IsStringAt(LineArguments, "page_name")) =>
        /\ pc \in {"call", "handled"}
        /\ pc = "call" => out = <<>>
        /\ calls = <<>> => (pc = "handled" /\ Len(out) = 1 /\ IsHeaderFailure(out[1]))
        /\ Len(calls) >= 1 =>
               /\ calls[1].method = "logseq.Editor.getPage"
               /\ calls[1].args = <<Index(LineArguments, "page_name")>>
        /\ (Len(replies) >= 1 /\ GoodReply(replies[1])) =>
               /\ Len(calls) = 2
               /\ calls[2].method = "logseq.Editor.getPageBlocksTree"
               /\ calls[2].args = <<Index(LineArguments, "page_name")>>
        /\ (Len(replies) = 2 /\ AllAnswered) =>
               /\ pc = "handled"
               /\ Len(out) = 1
               /\ IsTextResult(out[1])
               /\ TextOf(out[1]) =
                      to_string_pretty(JObj([page |-> replies[1].body,
                                             blocks |-> replies[2].body]))
        /\ replies = <<Body(JObj([name |-> JStr("X")])), Body(JArr(<<>>))>> =>
               TextOf(out[1]) = "{\n  \"blocks\": [],\n  \"page\": {\n    \"name\": \"X\"\n  }\n}"

C16_Witness ==
    /\ CallsTool("get_page")
    /\ replies = <<Body(JObj([name |-> JStr("X")])), Body(JArr(<<>>))>>
    /\ Len(calls) = 2
    /\ pc = "handled"
    /\ Len(out) = 1

\* C17: create_page with a string page_name sends one createPage call; its
\* args hold only the page name when the arguments have no `content`, and
\* hold the page name and an object carrying the content when `content` is a
\* string.
C17_CreatePageCallShapes ==
    (CallsTool("create_page") /\ IsStringAt(LineArguments, "page_name")) =>
        /\ pc \in {"call", "handled"}
        /\ Len(calls) <= 1
        /\ calls = <<>> => (pc = "handled" /\ Len(out) = 1 /\ IsHeaderFailure(out[1]))
        /\ calls # <<>> =>
               /\ calls[1].method = "logseq.Editor.createPage"
               /\ ~Get(LineArguments, "content").some =>
                      calls[1].args = <<Index(LineArguments, "page_name")>>
               /\ IsStringAt(LineArguments, "content") =>
                      /\ Len(calls[1].args) = 2
                      /\ calls[1].args[1] = Index(LineArguments, "page_name")
                      /\ Get(calls[1].args[2], "content") = Get(LineArguments, "content")

C17_Witness ==
    /\ CallsTool("create_page")
    /\ LineArguments = JObj([page_name |-> JStr("X")])
    /\ Len(calls) = 1
    /\ calls[1].args = <<JStr("X")>>

\* C18: every ping, wherever it comes in the sequence, is answered by one
\* response with the result {} and the request's id, without any backend
\* call; handling it changes nothing the later responses depend on: the
\* configuration stays as it is, and the loop is back at its top with no
\* trace of the ping but the counts of lines read and written.
C18_PingIdempotent ==
    /\ [](MethodIs("ping") =>
            /\ pc = "handled"
            /\ Len(out) = 1
            /\ IsEmptyResult(out[1])
            /\ Get(out[1], "id") = Some(UnwrapOr(LineId, JNum(0)))
            /\ calls = <<>>
            /\ replies = <<>>)
    /\ [][(MethodIs("ping") \/ MethodIs("ping")') => (config' = config /\ env' = env)]_vars
    /\ [][MethodIs("ping") =>
            (pc' = "read" /\ line' = BlankLine /\ out' = <<>> /\ calls' = <<>>
                /\ replies' = <<>> /\ nout' = nout /\ lineno' = lineno)]_vars

C18_Witness ==
    /\ MethodIs("ping")
    /\ LineId = Some(JStr("7"))
    /\ lineno = 2
    /\ nout = 2
    /\ Len(out) = 1

\* `initialized` sent as a notification: without an id, or with the id null.
IsNotification == MethodIs("initialized") /\ ~HasId

\* C19: a line that parses as JSON gets exactly one line on stdout, except
\* the `initialized` notification, which gets none.
C19_OneLinePerRequest ==
    (IsRequest /\ pc \in {"handled", "exit_err"}) =>
        Len(out) = (IF IsNotification THEN 0 ELSE 1)

\* C20: lines are handled one at a time and in order: a line is read only at
\* the top of the loop, never while a backend call is awaited; what is
\* written while a line is handled answers that line; and a backend call is
\* sent only for the line being handled, when every earlier call has been
\* answered.
C20_StrictArrivalOrder ==
    /\ [][lineno' # lineno => (pc = "read" /\ lineno' = lineno + 1)]_vars
    /\ [][pc = "call" => (line' = line /\ lineno' = lineno)]_vars
    /\ [][nout' # nout =>
            (/\ pc' = "handled"
             /\ nout' = nout + 1
             /\ Len(out') = 1
             /\ Get(out'[1], "id") = Some(UnwrapOr(LineId', JNum(0))))]_vars
    /\ [][Len(calls') > Len(calls) =>
            (/\ pc' = "call"
             /\ Len(calls') = Len(calls) + 1
             /\ Len(replies') = Len(calls)
             /\ \/ pc = "read" /\ lineno' = lineno + 1
                \/ pc = "call" /\ line' = line)]_vars

C20_Witness ==
    /\ lineno = 2
    /\ nout = 1
    /\ pc = "call"
    /\ Len(calls) = 2
    /\ Len(replies) = 1

\* C21: at the end of stdin, which the loop meets only at its top, when no
\* backend call is pending, the process ends in success; it writes nothing
\* and calls nothing on the way, and does nothing afterwards.
C21_CleanEndOfStream ==
    /\ [][(pc = "read" /\ pc' # "read" /\ lineno' = lineno) =>
            (/\ pc' = "exit_ok"
             /\ nout' = nout /\ out' = out /\ calls' = calls /\ replies' = replies
             /\ config' = config)]_vars
    /\ [][pc' = "exit_ok" => pc = "read"]_vars
    /\ [](pc = "exit_ok" => (out = <<>> /\ calls = <<>> /\ replies = <<>>))
    /\ [][pc # "exit_ok"]_vars

C21_Witness == pc = "exit_ok" /\ lineno = 2 /\ nout = 2

\* C22: a line that is empty once trimmed is passed over: reading it writes
\* nothing, calls nothing and fails nothing, and the loop is back at its top
\* with the configuration and the count of written lines as they were.
C22_BlankLineIgnored ==
    /\ [][(pc = "read" /\ lineno' = lineno + 1 /\ line' = BlankLine) =>
            (/\ pc' = "handled"
             /\ nout' = nout /\ out' = <<>> /\ calls' = <<>> /\ replies' = <<>>
             /\ config' = config)]_vars
    /\ [][(pc = "handled" /\ line = BlankLine) =>
            (/\ pc' = "read"
             /\ nout' = nout /\ lineno' = lineno /\ config' = config
             /\ line' = BlankLine /\ out' = <<>> /\ calls' = <<>> /\ replies' = <<>>)]_vars

C22_Witness == pc = "handled" /\ line = BlankLine /\ lineno = 2 /\ nout = 1

\* The keys the argument objects of the input use, and an object that gives
\* every one of them a value its reader accepts.
ArgumentKeys == UNION {DOMAIN a.val.v : a \in {b \in Arguments : b.some /\ b.val.t = "obj"}}
FullArguments ==
    JObj([k \in ArgumentKeys |->
             IF k \in {"sibling", "_skip_response"} THEN JBool(TRUE) ELSE JStr("v")])
Without(a, k) == JObj([j \in DOMAIN a.v \ {k} |-> a.v[j]])
\* The parameters a handler reads: the keys whose removal changes what the
\* handler does.
HandlerReads(n) ==
    {k \in ArgumentKeys :
        DispatchTool(n, FullArguments, <<>>) # DispatchTool(n, Without(FullArguments, k), <<>>)}
PropertiesOf(n) == DOMAIN UnwrapOr(RegistryTool(n).input_schema.properties, EmptyMap)

\* C23: for every tool of the registry, every name of `required` is a key of
\* `properties`, and every parameter the handler of a called tool reads,
\* required or optional, is a key of `properties`.
C23_SchemaCoversHandler ==
    \A n \in RegistryNames :
        /\ \A i \in DOMAIN RequiredOf(n) : RequiredOf(n)[i] \in PropertiesOf(n)
        /\ CallsTool(n) => HandlerReads(n) \subseteq PropertiesOf(n)

C23_Witness ==
    /\ config.some
    /\ config.val.logseq_api_token = "secret"
    /\ HandlerReads("insert_block") = {"parent_uuid", "content", "sibling"}
    /\ HandlerReads("create_page") = {"page_name", "content"}
    /\ CallsTool("insert_block")
    /\ pc = "call"

\* What a failed exchange with the backend is described by.
FailureText(r) ==
    CASE r.kind = "send_failed" -> "error sending request"
      [] r.kind = "not_json"    -> "error decoding response body"
      [] OTHER                  -> ToJsonString(Get(r.body, "error").val)

\* C24: when the backend fails a call of a tools/call (the request cannot be
\* sent, the body is not JSON, or the body has a top-level `error`), the
\* request is answered by one error of code -32603 whose message holds the
\* description of the failure; no result is written and no further call made.
C24_BackendFailureSurfaced ==
    (MethodIs("tools/call") /\ replies # <<>> /\ ~GoodReply(replies[Len(replies)])) =>
        /\ pc = "handled"
        /\ Len(out) = 1
        /\ IsErrorResponse(out[1], -32603)
        /\ Mentions(out[1], FailureText(replies[Len(replies)]))
        /\ Len(calls) = Len(replies)

C24_Witness ==
    /\ CallsTool("get_page")
    /\ replies = <<Body(JObj([name |-> JStr("X")])), Body(JObj([error |-> JStr("boom")]))>>
    /\ Len(out) = 1
    /\ Mentions(out[1], "\"boom\"")

\* C25: every response written has jsonrpc "2.0" and exactly one of `result`
\* and `error`.
C25_ResultXorError ==
    \A i \in DOMAIN out :
        /\ Get(out[i], "jsonrpc") = Some(JStr("2.0"))
        /\ Get(out[i], "result").some # Get(out[i], "error").some

C25_Witness ==
    /\ replies = <<NotJson>>
    /\ Len(out) = 1
    /\ Get(out[1], "error").some
    /\ ~Get(out[1], "result").some

\* C26: no backend operation is attempted twice for one request: a tools/call
\* makes at most two calls when the tool is get_page and at most one
\* otherwise, no other request makes any, the calls of one request are calls
\* of different operations, and a failed call ends the handler with one
\* failure and without another call.
C26_NoRetries ==
    /\ Len(calls) <= (IF CallsTool("get_page") THEN 2 ELSE 1)
    /\ calls # <<>> => (LineToolName.some /\ LineToolName.val \in ToolNames)
    /\ \A i, j \in DOMAIN calls : i # j => calls[i].method # calls[j].method
    /\ (replies # <<>> /\ ~GoodReply(replies[Len(replies)])) =>
           /\ pc = "handled"
           /\ Len(calls) = Len(replies)
           /\ Len(out) = 1
           /\ Get(out[1], "error").some

C26_Witness ==
    /\ CallsTool("get_page")
    /\ replies = <<SendFailed>>
    /\ Len(calls) = 1
    /\ pc = "handled"

\* C27: at most one backend call is awaiting its answer at any time, and the
\* process is awaiting exactly then; get_page sends getPageBlocksTree only
\* once getPage has been answered.
C27_OneCallInFlight ==
    /\ Len(calls) - Len(replies) \in {0, 1}
    /\ pc = "call" <=> Len(calls) = Len(replies) + 1
    /\ (CallsTool("get_page") /\ Len(calls) = 2) =>
           /\ Len(replies) >= 1
           /\ GoodReply(replies[1])
           /\ calls[1].method = "logseq.Editor.getPage"
           /\ calls[2].method = "logseq.Editor.getPageBlocksTree"

C27_Witness ==
    /\ CallsTool("get_page")
    /\ pc = "call"
    /\ Len(calls) = 2
    /\ Len(replies) = 1

\* The mapping table: the API method a tool's gateway operation posts, its
\* positional arguments, and the envelope of the result.
TableMethod(n) ==
    CASE n = "list_graphs"    -> "logseq.App.getCurrentGraph"
      [] n = "list_pages"     -> "logseq.Editor.getAllPages"
      [] n = "get_page"       -> "logseq.Editor.getPage"
      [] n = "get_block"      -> "logseq.Editor.getBlock"
      [] n = "search"         -> "logseq.App.search"
      [] n = "create_page"    -> "logseq.Editor.createPage"
      [] n = "update_block"   -> "logseq.Editor.updateBlock"
      [] n = "insert_block"   -> "logseq.Editor.insertBlock"
      [] n = "delete_block"   -> "logseq.Editor.removeBlock"
      [] n = "append_to_page" -> "logseq.Editor.appendBlockInPage"
TableArgs(n, a) ==
    CASE n \in {"list_graphs", "list_pages"} -> <<>>
      [] n = "get_page"       -> <<Index(a, "page_name")>>
      [] n = "get_block"      -> <<Index(a, "uuid")>>
      [] n = "search"         -> <<Index(a, "query")>>
      [] n = "create_page"    ->
            IF IsStringAt(a, "content")
            THEN <<Index(a, "page_name"),
                   JObj([content |-> Index(a, "content"), format |-> JStr("markdown")])>>
            ELSE <<Index(a, "page_name")>>
      [] n = "update_block"   -> <<Index(a, "uuid"), Index(a, "content")>>
      [] n = "insert_block"   ->
            <<Index(a, "parent_uuid"), Index(a, "content"),
              JObj([sibling |-> IF Index(a, "sibling").t = "bool"
                                THEN Index(a, "sibling") ELSE JBool(FALSE)])>>
      [] n = "delete_block"   -> <<Index(a, "uuid")>>
      [] n = "append_to_page" -> <<Index(a, "page_name"), Index(a, "content")>>
TableEnvelope(n, rs) ==
    CASE n = "list_graphs"    -> JObj([graphs |-> JArr(<<rs[1].body>>)])
      [] n = "list_pages"     -> JObj([pages |-> rs[1].body])
      [] n = "get_page"       -> JObj([page |-> rs[1].body, blocks |-> rs[2].body])
      [] n = "get_block"      -> JObj([block |-> rs[1].body])
      [] n = "search"         -> JObj([results |-> rs[1].body])
      [] n = "create_page"    -> JObj([success |-> JBool(TRUE), page |-> rs[1].body])
      [] n = "delete_block"   -> JObj([success |-> JBool(TRUE), result |-> rs[1].body])
      [] n \in {"update_block", "insert_block", "append_to_page"} ->
            JObj([success |-> JBool(TRUE), block |-> rs[1].body])

\* C28: each of the ten tools, called with its required parameters as
\* strings, posts the method of its gateway operation with the arguments in
\* the table's positional order, and when the backend answers without error
\* the text of the response is the JSON of the answer under the table's key.
C28_MappingTable ==
    \A n \in ToolNames :
        (/\ CallsTool(n)
         /\ \A i \in DOMAIN RequiredOf(n) : IsStringAt(LineArguments, RequiredOf(n)[i])
         /\ calls # <<>>) =>
            /\ calls[1].method = TableMethod(n)
            /\ calls[1].args = TableArgs(n, LineArguments)
            /\ (pc = "handled" /\ AllAnswered) =>
                   /\ Len(replies) = (IF n = "get_page" THEN 2 ELSE 1)
                   /\ Len(out) = 1
                   /\ IsTextResult(out[1])
                   /\ TextOf(out[1]) = to_string_pretty(TableEnvelope(n, replies))

C28_Witness ==
    /\ CallsTool("insert_block")
    /\ pc = "handled"
    /\ AllAnswered
    /\ calls[1].args = <<JStr("u"), JStr("c"), JObj([sibling |-> JBool(TRUE)])>>
    /\ IsTextResult(out[1])

\* C29: a tools/call in which some parameter of the tool's `required` list is
\* missing or not a string is answered without any backend call.
C29_ValidationBeforeBackend ==
    \A n \in RegistryNames :
        (/\ CallsTool(n)
         /\ \E i \in DOMAIN RequiredOf(n) : ~IsStringAt(LineArguments, RequiredOf(n)[i])) =>
            /\ pc = "handled"
            /\ calls = <<>>
            /\ replies = <<>>
            /\ Len(out) = 1

C29_Witness ==
    /\ CallsTool("append_to_page")
    /\ LineArguments = JObj([page_name |-> JStr("X")])
    /\ pc = "handled"
    /\ calls = <<>>
    /\ Len(out) = 1

\* The line with `arguments: {}` added to its params.
WithEmptyArguments(l) ==
    JsonLine(JObj([k \in DOMAIN l.value.v |->
        IF k = "params"
        THEN JObj([j \in DOMAIN l.value.v[k].v \cup {"arguments"} |->
                      IF j = "arguments" THEN JObj(EmptyMap) ELSE l.value.v[k].v[j]])
        ELSE l.value.v[k]]))
\* The process is where the iteration `it` has it.
StandsAs(it) ==
    /\ pc = it.next
    /\ pc = "handled" => out = it.write
    /\ pc = "call" => <<calls[Len(calls)]>> = it.send

\* C30: a tools/call whose params has no `arguments` goes as the same call
\* with `arguments: {}` goes, on the same backend answers: list_graphs and
\* list_pages succeed when the backend answers without error, and a tool with
\* required parameters is answered by the -32603 error naming the first of
\* them, without a backend call.
C30_AbsentArgumentsAreEmpty ==
    (LineToolName.some /\ ~Get(LineParams.val, "arguments").some) =>
        /\ StandsAs(Iteration(WithEmptyArguments(line), replies))
        /\ (LineToolName.val \in {"list_graphs", "list_pages"} /\ pc = "handled" /\ AllAnswered) =>
               (Len(out) = 1 /\ IsTextResult(out[1]))
        /\ (LineToolName.val \in RegistryNames /\ RequiredOf(LineToolName.val) # <<>>) =>
               /\ pc = "handled"
               /\ calls = <<>>
               /\ Len(out) = 1
               /\ IsErrorResponse(out[1], -32603)
               /\ Mentions(out[1], RequiredOf(LineToolName.val)[1])

C30_Witness ==
    /\ CallsTool("list_pages")
    /\ ~Get(LineParams.val, "arguments").some
    /\ pc = "handled"
    /\ AllAnswered
    /\ IsTextResult(out[1])

\* C31: what a line comes to is decided by the line, the backend's answers to
\* it and the configuration alone, wherever the line stands in the input:
\* the process stands as the handling of just that line on just those answers
\* has it, the configuration never changes once loaded, nothing of a handled
\* line is kept for the next, and no line ends the process, so that the lines
\* after it are handled as they are without it.
C31_StatelessAcrossLines ==
    /\ []((pc \in {"call", "handled", "exit_err"} /\ lineno >= 1) =>
            StandsAs(Iteration(line, replies)))
    /\ [][config.some => (config' = config /\ env' = env)]_vars
    /\ [][pc = "handled" =>
            (line' = BlankLine /\ out' = <<>> /\ calls' = <<>> /\ replies' = <<>>)]_vars
    /\ [](lineno >= 1 => pc # "exit_err")

\* The method name the line is routed by: "" when it has no string `method`.
LineRoute == UnwrapOr(LineMethod, "")
ErrorCode(r) == Get(Get(r, "error").val, "code").val.v

\* C32: the code of every error response written is -32601 or -32603: -32601
\* exactly when the method is unknown, -32603 exactly when the request is a
\* tools/call; and every tools/call that does not come to a result is answered
\* by an error of code -32603.
C32_ErrorCodes ==
    /\ \A i \in DOMAIN out :
           Get(out[i], "error").some =>
               /\ ErrorCode(out[i]) \in {-32601, -32603}
               /\ ErrorCode(out[i]) = -32601 <=> LineRoute \notin KnownMethods
               /\ ErrorCode(out[i]) = -32603 <=> LineRoute = "tools/call"
    /\ (MethodIs("tools/call") /\ pc \in {"handled", "exit_err"}
            /\ ~(Len(out) = 1 /\ Get(out[1], "result").some)) =>
           (Len(out) = 1 /\ IsErrorResponse(out[1], -32603))

\* C33: `initialized` with an id that is present and not null is answered by
\* exactly one response, with that id and the result {}, and without a
\* backend call.
C33_InitializedRequestAcknowledged ==
    (MethodIs("initialized") /\ HasId) =>
        /\ pc = "handled"
        /\ Len(out) = 1
        /\ IsEmptyResult(out[1])
        /\ Get(out[1], "id") = LineId
        /\ calls = <<>>

C33_Witness ==
    /\ MethodIs("initialized")
    /\ LineId = Some(JNum(0))
    /\ Len(out) = 1
    /\ Get(out[1], "id") = Some(JNum(0))

\* C34: insert_block with its two required parameters sends insertBlock with
\* sibling false when the arguments have no `sibling`, which is the default
\* its schema declares, and with the given value when `sibling` is a boolean;
\* the call succeeds without `sibling`.
C34_SiblingDefault ==
    /\ Get(RegistryTool("insert_block").input_schema.properties.val["sibling"], "default")
           = Some(JBool(FALSE))
    /\ "sibling" \notin {RequiredOf("insert_block")[i] : i \in DOMAIN RequiredOf("insert_block")}
    /\ (/\ CallsTool("insert_block")
        /\ IsStringAt(LineArguments, "parent_uuid")
        /\ IsStringAt(LineArguments, "content")) =>
           /\ pc \in {"call", "handled"}
           /\ calls # <<>> =>
                  /\ calls[1].method = "logseq.Editor.insertBlock"
                  /\ Len(calls[1].args) = 3
                  /\ ~Get(LineArguments, "sibling").some =>
                         calls[1].args[3] = JObj([sibling |-> JBool(FALSE)])
                  /\ AsBool(Index(LineArguments, "sibling")).some =>
                         calls[1].args[3] = JObj([sibling |-> Index(LineArguments, "sibling")])
           /\ (pc = "handled" /\ AllAnswered /\ ~Get(LineArguments, "sibling").some) =>
                  (Len(out) = 1 /\ IsTextResult(out[1]))

C34_Witness ==
    /\ CallsTool("insert_block")
    /\ LineArguments = JObj([parent_uuid |-> JStr("u"), content |-> JStr("c")])
    /\ pc = "handled"
    /\ AllAnswered
    /\ calls[1].args[3] = JObj([sibling |-> JBool(FALSE)])

C36_StartupConfiguration ==
    /\ ~env.LOGSEQ_API_TOKEN.some =>
           /\ pc \in {"boot", "exit_err"}
           /\ config = None
           /\ lineno = 0
           /\ nout = 0
           /\ out = <<>>
           /\ calls = <<>>
    /\ (env.LOGSEQ_API_TOKEN.some /\ ~env.LOGSEQ_API_URL.some /\ pc # "boot") =>
           /\ config.some
           /\ config.val.logseq_api_url = "http://localhost:12315"
           /\ lineno = 0 => pc \in {"read", "exit_ok"}
           /\ \A i \in DOMAIN calls : calls[i].url = "http://localhost:12315/api"

C36_Witness ==
    /\ ~env.LOGSEQ_API_TOKEN.some
    /\ pc = "exit_err"
    /\ lineno = 0
    /\ nout = 0

\* C37: in get_page, when the first call has failed no second call is sent,
\* and when either call has failed the request is answered by one error of
\* code -32603 that has the failure for its message and nothing of the page
\* or its blocks.
C37_GetPageFailsWhole ==
    (CallsTool("get_page") /\ IsStringAt(LineArguments, "page_name") /\ replies # <<>>) =>
        /\ ~GoodReply(replies[1]) => (Len(calls) = 1 /\ Len(replies) = 1 /\ pc = "handled")
        /\ ~GoodReply(replies[Len(replies)]) =>
               /\ pc = "handled"
               /\ Len(out) = 1
               /\ IsErrorResponse(out[1], -32603)
               /\ Get(Get(out[1], "error").val, "data") = None
               /\ Get(out[1], "page") = None
               /\ Get(out[1], "blocks") = None
               /\ MessageParts(out[1])[1] = "Tool execution failed: "
               /\ MessageParts(out[1])[Len(MessageParts(out[1]))]
                      = FailureText(replies[Len(replies)])
               /\ Len(MessageParts(out[1])) \in {2, 3}
               /\ Len(MessageParts(out[1])) = 3 => MessageParts(out[1])[2] = "Logseq API error: "

C37_Witness ==
    /\ CallsTool("get_page")
    /\ replies = <<Body(JObj([name |-> JStr("X")])), SendFailed>>
    /\ Len(calls) = 2
    /\ Len(out) = 1
    /\ IsErrorResponse(out[1], -32603)

\* C38: a line that parses as JSON and has no string `method` (a JSON value
\* that is no object included) is handled as a request of the method "": it
\* is answered by exactly one error of code -32601, with the line's `id` when
\* it has one and 0 otherwise, and the loop goes on.
C38_MethodlessLineIsUnknownMethod ==
    (IsRequest /\ ~LineMethod.some) =>
        /\ pc = "handled"
        /\ Len(out) = 1
        /\ IsErrorResponse(out[1], -32601)
        /\ MessageParts(out[1]) = <<"Method '", "", "' not found">>
        /\ Get(out[1], "id") = Some(UnwrapOr(LineId, JNum(0)))
        /\ line.value.t # "obj" => Get(out[1], "id") = Some(JNum(0))
        /\ calls = <<>>

C38_Witness ==
    /\ line = JsonLine(JNum(42))
    /\ pc = "handled"
    /\ Len(out) = 1
    /\ IsErrorResponse(out[1], -32601)

ProtocolMethods ==
    {"initialize", "initialized", "notifications/initialized", "ping", "tools/list"}
ReadOnlyTools == {"list_graphs", "list_pages", "get_page", "get_block", "search"}
ReadOperations ==
    {"logseq.App.getCurrentGraph", "logseq.Editor.getAllPages", "logseq.Editor.getPage",
     "logseq.Editor.getPageBlocksTree", "logseq.Editor.getBlock", "logseq.App.search"}
WriteOperations ==
    {"logseq.Editor.createPage", "logseq.Editor.updateBlock", "logseq.Editor.insertBlock",
     "logseq.Editor.removeBlock", "logseq.Editor.deleteBlock",
     "logseq.Editor.appendBlockInPage"}

\* C39: a request of a protocol method sends nothing to the backend, and a
\* call of a read-only tool sends read operations only.
C39_ReadsDoNotWrite ==
    /\ (LineMethod.some /\ LineMethod.val \in ProtocolMethods) => calls = <<>>
    /\ (LineToolName.some /\ LineToolName.val \in ReadOnlyTools) =>
           \A i \in DOMAIN calls :
               /\ calls[i].method \in ReadOperations
               /\ calls[i].method \notin WriteOperations

C39_Witness ==
    /\ CallsTool("get_block")
    /\ Len(calls) = 1
    /\ calls[1].method = "logseq.Editor.getBlock"
    /\ pc = "handled"

\* C40: only `initialized` with a null id goes without a response: every
\* other handled request has its line on stdout, whatever `_skip_response`
\* its params, its arguments or the backend's answers hold, and no line
\* written is the marker.
C40_OnlyInitializedSuppressed ==
    /\ (IsRequest /\ pc = "handled" /\ out = <<>>) =>
           (MethodIs("initialized") /\ LineId = Some(JNull))
    /\ \A i \in DOMAIN out :
           /\ out[i] # SkipMarker
           /\ Get(out[i], "_skip_response") = None

C40_Witness ==
    /\ CallsTool("list_pages")
    /\ replies = <<Body(JObj([_skip_response |-> JBool(TRUE)]))>>
    /\ pc = "handled"
    /\ Len(out) = 1
    /\ IsTextResult(out[1])

====
